---- MODULE Spec2Model ----
(***************************************************************************)
(* pyblob: the Blob facade of azure_blob.py over the Azure blob service.   *)
(*                                                                         *)
(* The remote state is the storage account as the SDK clients see it: a    *)
(* status per container name and the blobs of every container.  The facade *)
(* state is the mode flag fixed at construction and the two mutable        *)
(* "current name" fields of the wrapped BlobSync / BlobAsync object.       *)
(* Every facade method is one action; `last` records the call just made    *)
(* (arguments, what the try body raised, what reached the caller).         *)
(***************************************************************************)
EXTENDS Integers, Sequences, FiniteSets, TLC

\* Bounds of the model: how many blob names and how many payloads there are.
NumBlobs == 1
NumData == 2

\* The container names of the account; the facade works on one at a time.
Containers == {"c1"}
Blobs == 1..NumBlobs
Data == 1..NumData

\* kwargs.get('raw'): the key is missing, or present with a falsy / truthy value.
RawValues == {"absent", "falsy", "truthy"}

VARIABLES
  status,          \* service: container name -> "absent" | "present" | "deleting"
  content,         \* service: container name -> (blob name -> payload), a partial function
  isasync,         \* Blob.isasync, fixed at construction
  container_name,  \* BlobBase._container_name
  blob_name,       \* BlobBase._blob_name: {} is None, {b} is the name b
  last,            \* the facade call (or other step) just made
  self_blob,            \* the attributes BlobBase.__init__ has set on the wrapped object
  clock,           \* utcnow() now, and when the `def get_sas_token` lines were evaluated
  adapter,         \* the settings of the AzureStorage adapter
  storage_file,    \* the AzureStorageFile the adapter has opened, if any
  tasks            \* the operations in flight on the wrapped object, one per thread or coroutine

vars == <<status, content, isasync, container_name, blob_name, last, self_blob, clock, adapter,
          storage_file, tasks>>

\* What the facade operations leave alone: the credentials, the clock, the
\* adapter and its file, the operations in flight.
fixed == <<self_blob, clock, adapter, storage_file, tasks>>

-----------------------------------------------------------------------------
(* Values *)

NoBlobs == [x \in {} |-> x]

Put(f, b, d) == [x \in (DOMAIN f) \cup {b} |-> IF x = b THEN d ELSE f[x]]

Drop(f, b) == [x \in (DOMAIN f) \ {b} |-> f[x]]

\* The element of a one-element set
The(S) == CHOOSE x \in S : TRUE

\* What a call hands back: the kind of Python value, its payload, its names.
Ret(kind, data, names) == [kind |-> kind, data |-> data, names |-> names]

RetNone == Ret("None", {}, {})

\* A coroutine object that was created and never awaited.
RetCoroutine == Ret("coroutine", {}, {})

\* kwargs of a facade call, as far as the code reads them.
Kwargs(raw, overwrite) == [raw |-> raw, overwrite |-> overwrite, timeout |-> FALSE]

NoKwargs == Kwargs("absent", FALSE)

\* The outcome of running a try body or an implementation method.
Outcome(r, bn, exc, ret, calls) ==
  [r |-> r, blob_name |-> bn, exc |-> exc, ret |-> ret, calls |-> calls]

-----------------------------------------------------------------------------
(* The service behind the SDK clients.  `fault` is an unclassified         *)
(* transport or service failure of the request.  A container that was      *)
(* deleted stays "deleting" until the service has collected it: creating   *)
(* it in that time is a 409 conflict, every other request on it a 404.     *)

Sdk(r, exc, ret) == [r |-> r, exc |-> exc, ret |-> ret]

sdk_create_container(r, c, fault) ==
  IF fault THEN Sdk(r, "HttpResponseError", RetNone)
  ELSE IF r.status[c] # "absent" THEN Sdk(r, "ResourceExistsError", RetNone)
  ELSE Sdk([r EXCEPT !.status[c] = "present"], "none", RetNone)

sdk_delete_container(r, c, fault) ==
  IF fault THEN Sdk(r, "HttpResponseError", RetNone)
  ELSE IF r.status[c] # "present" THEN Sdk(r, "ResourceNotFoundError", RetNone)
  ELSE Sdk([r EXCEPT !.status[c] = "deleting", !.content[c] = NoBlobs],
           "none", RetNone)

sdk_list_containers(r, fault) ==
  IF fault THEN Sdk(r, "HttpResponseError", RetNone)
  ELSE Sdk(r, "none", Ret("list", {}, {c \in Containers : r.status[c] = "present"}))

sdk_list_blobs(r, c, fault) ==
  IF fault THEN Sdk(r, "HttpResponseError", RetNone)
  ELSE IF r.status[c] # "present" THEN Sdk(r, "ResourceNotFoundError", RetNone)
  ELSE Sdk(r, "none", Ret("list", {}, DOMAIN r.content[c]))

sdk_upload_blob(r, c, b, d, overwrite, fault) ==
  IF fault THEN Sdk(r, "HttpResponseError", RetNone)
  ELSE IF r.status[c] # "present" THEN Sdk(r, "ResourceNotFoundError", RetNone)
  ELSE IF b \in DOMAIN r.content[c] /\ ~overwrite
       THEN Sdk(r, "ResourceExistsError", RetNone)
  ELSE Sdk([r EXCEPT !.content[c] = Put(@, b, d)], "none", Ret("dict", {}, {}))

sdk_download_blob(r, c, b, fault) ==
  IF fault THEN Sdk(r, "HttpResponseError", RetNone)
  ELSE IF r.status[c] # "present" \/ b \notin DOMAIN r.content[c]
       THEN Sdk(r, "ResourceNotFoundError", RetNone)
  ELSE Sdk(r, "none", Ret("stream", {r.content[c][b]}, {}))

sdk_get_blob_properties(r, c, b, fault) ==
  IF fault THEN Sdk(r, "HttpResponseError", RetNone)
  ELSE IF r.status[c] # "present" \/ b \notin DOMAIN r.content[c]
       THEN Sdk(r, "ResourceNotFoundError", RetNone)
  ELSE Sdk(r, "none", Ret("props", {r.content[c][b]}, {b}))

sdk_delete_blob(r, c, b, fault) ==
  IF fault THEN Sdk(r, "HttpResponseError", RetNone)
  ELSE IF r.status[c] # "present" \/ b \notin DOMAIN r.content[c]
       THEN Sdk(r, "ResourceNotFoundError", RetNone)
  ELSE Sdk([r EXCEPT !.content[c] = Drop(@, b)], "none", RetNone)

-----------------------------------------------------------------------------
(* BlobSync / BlobAsync: the implementation methods the facade owns.  The   *)
(* two classes have the same bodies (the async one awaits the same SDK      *)
(* calls), so one operator models both, except delete_blob, whose sync      *)
(* signature takes no keyword arguments.  Each blob method assigns the      *)
(* current blob name first and builds its client from the current names.    *)

Impl(s, bn, calls) == Outcome(s.r, bn, s.exc, s.ret, calls)

Impl_list_container(r, bn, fault) ==
  Impl(sdk_list_containers(r, fault), bn, <<"list_containers">>)

Impl_create_container(r, cn, bn, fault) ==
  LET s == sdk_create_container(r, cn, fault)
  IN  Outcome(s.r, bn, s.exc, RetNone, <<"create_container">>)

Impl_delete_container(r, cn, bn, fault) ==
  Impl(sdk_delete_container(r, cn, fault), bn, <<"delete_container">>)

Impl_list_blobs(r, cn, bn, fault) ==
  Impl(sdk_list_blobs(r, cn, fault), bn, <<"list_blobs">>)

Impl_walk_blobs(r, cn, bn, fault) ==
  Impl(sdk_list_blobs(r, cn, fault), bn, <<"walk_blobs">>)

Impl_blob_properties(r, cn, b, fault) ==
  Impl(sdk_get_blob_properties(r, cn, b, fault), {b}, <<"get_blob_properties">>)

Impl_upload_blob(r, cn, b, d, kw, fault) ==
  Impl(sdk_upload_blob(r, cn, b, d, kw.overwrite, fault), {b}, <<"upload_blob">>)

Impl_get_blob(r, cn, b, fault) ==
  Impl(sdk_download_blob(r, cn, b, fault), {b}, <<"download_blob">>)

\* download_blob(...) then readall(): the whole payload as bytes.
Impl_read_blob(r, cn, b, fault) ==
  LET s == sdk_download_blob(r, cn, b, fault)
  IN  Outcome(s.r, {b}, s.exc,
              IF s.exc = "none" THEN Ret("bytes", s.ret.data, {}) ELSE RetNone,
              <<"download_blob">>)

BlobAsync_delete_blob(r, cn, b, fault) ==
  Impl(sdk_delete_blob(r, cn, b, fault), {b}, <<"delete_blob">>)

\* def delete_blob(self, blob_name): a call that passes any keyword argument
\* besides blob_name fails to bind, before the body runs.
BlobSync_delete_blob(r, cn, bn, b, kw, fault) ==
  IF kw.timeout \/ kw.raw # "absent" \/ kw.overwrite
  THEN Outcome(r, bn, "TypeError", RetNone, <<>>)
  ELSE Impl(sdk_delete_blob(r, cn, b, fault), {b}, <<"delete_blob">>)

-----------------------------------------------------------------------------
(* The Blob facade.                                                         *)

Info(text) == <<"logger.info", text>>

\* utils.error_msg prints the traceback and "[<class>] <detail>"; it returns None.
error_msg(exc) == <<"print", exc>>

\* What reaches the caller of a facade method. `exc` is what the try body raised.
Facade(r, bn, ret, raised, log, calls, exc) ==
  [r |-> r, blob_name |-> bn, ret |-> ret, raised |-> raised, log |-> log,
   calls |-> calls, exc |-> exc]

\* The head every operation method shares:
\*     kwargs.update({'timeout': self.timeout})
\*     if self.isasync and not kwargs.get('raw'):
\*       kwargs.pop('raw');  return self.run_async(self.blob.<op>, ...)
\*     kwargs.pop('raw');    return self.blob.<op>(...)
\* pop without a default raises KeyError when the caller gave no raw; with a
\* truthy raw in async mode the coroutine function is called and not awaited.
\* As Dispatch, but raw is popped with a default: a call without raw goes
\* the way of a call with a falsy raw.
Dispatch_RawDefault(mode, kw) ==
  IF mode /\ kw.raw # "truthy" THEN "run_async"
  ELSE IF mode THEN "coroutine" ELSE "call"

Dispatch(mode, kw) ==
  IF mode /\ kw.raw # "truthy"
  THEN IF kw.raw = "absent" THEN "KeyError" ELSE "run_async"
  ELSE IF kw.raw = "absent" THEN "KeyError"
       ELSE IF mode THEN "coroutine" ELSE "call"

\* The kwargs with overwrite=True put in on the way: every upload replaces.
PassKwargs_ForceOverwrite(kw) ==
  [kw EXCEPT !.timeout = TRUE, !.raw = "absent", !.overwrite = TRUE]

\* The kwargs the implementation gets: timeout added, raw popped.
PassKwargs(kw) == [kw EXCEPT !.timeout = TRUE, !.raw = "absent"]

\* The try body: `impl` is the implementation method run to completion
\* (directly, or by run_async on a new event loop).
TryBody(path, r, bn, impl) ==
  CASE path = "KeyError" -> Outcome(r, bn, "KeyError", RetNone, <<>>)
    [] path = "coroutine" -> Outcome(r, bn, "none", RetCoroutine, <<>>)
    [] OTHER -> impl

\* The message of the except clause that names the exception class, if any.
Classified(op, exc) ==
  CASE op = "create_container" /\ exc = "ResourceExistsError" -> <<"Container Exists">>
    [] op = "delete_container" /\ exc = "ResourceNotFoundError" -> <<"Container Not Found">>
    [] op = "upload_blob" /\ exc = "ResourceExistsError" -> <<"Blob Exists">>
    [] op = "delete_blob" /\ exc = "ResourceNotFoundError" -> <<"Blob not exists">>
    [] OTHER -> <<>>

\* The except clauses of an operation method without the catch-all
\* `except Exception`: what is not named propagates.
Handle_NoCatchAll(op, o) ==
  IF o.exc = "none"
  THEN Facade(o.r, o.blob_name, o.ret, "none", <<>>, o.calls, o.exc)
  ELSE IF Classified(op, o.exc) # <<>>
  THEN Facade(o.r, o.blob_name, RetNone, "none",
              <<Info(Classified(op, o.exc)[1])>>, o.calls, o.exc)
  ELSE Facade(o.r, o.blob_name, RetNone, o.exc, <<>>, o.calls, o.exc)

\* The except clauses of an operation method: the named class is logged,
\* everything else goes to error_msg; the method then returns None.
Handle(op, o) ==
  IF o.exc = "none"
  THEN Facade(o.r, o.blob_name, o.ret, "none", <<>>, o.calls, o.exc)
  ELSE IF Classified(op, o.exc) # <<>>
  THEN Facade(o.r, o.blob_name, RetNone, "none",
              <<Info(Classified(op, o.exc)[1])>>, o.calls, o.exc)
  ELSE Facade(o.r, o.blob_name, RetNone, "none",
              <<error_msg(o.exc)>>, o.calls, o.exc)

Blob_create_container(mode, r, cn, bn, kw, fault) ==
  Handle("create_container",
         TryBody(Dispatch(mode, kw), r, bn, Impl_create_container(r, cn, bn, fault)))

Blob_delete_container(mode, r, cn, bn, kw, fault) ==
  Handle("delete_container",
         TryBody(Dispatch(mode, kw), r, bn, Impl_delete_container(r, cn, bn, fault)))

Blob_blob_properties(mode, r, cn, bn, b, kw, fault) ==
  Handle("blob_properties",
         TryBody(Dispatch(mode, kw), r, bn, Impl_blob_properties(r, cn, b, fault)))

Blob_download_blob(mode, r, cn, bn, b, kw, fault) ==
  Handle("download_blob",
         TryBody(Dispatch(mode, kw), r, bn, Impl_get_blob(r, cn, b, fault)))

Blob_read_blob(mode, r, cn, bn, b, kw, fault) ==
  Handle("read_blob",
         TryBody(Dispatch(mode, kw), r, bn, Impl_read_blob(r, cn, b, fault)))

Blob_delete_blob(mode, r, cn, bn, b, kw, fault) ==
  Handle("delete_blob",
         TryBody(Dispatch(mode, kw), r, bn,
                 IF mode THEN BlobAsync_delete_blob(r, cn, b, fault)
                 ELSE BlobSync_delete_blob(r, cn, bn, b, PassKwargs(kw), fault)))

\* walk_blobs logs args[0] first (IndexError without a positional argument),
\* and in async mode with a falsy or missing raw it never pops raw.
Blob_walk_blobs(mode, r, cn, bn, nargs, kw, fault) ==
  LET impl == Impl_walk_blobs(r, cn, bn, fault)
      body == IF nargs = 0 THEN Outcome(r, bn, "IndexError", RetNone, <<>>)
              ELSE IF mode /\ kw.raw # "truthy" THEN impl
              ELSE IF kw.raw = "absent" THEN Outcome(r, bn, "KeyError", RetNone, <<>>)
              ELSE IF mode THEN Outcome(r, bn, "none", RetCoroutine, <<>>)
              ELSE impl
  IN  Handle("walk_blobs", body)

\* upload_blob: on ResourceNotFoundError the handler calls the facade's own
\* create_container() with no arguments and then upload_blob again with the
\* kwargs as they are by then (timeout set, raw popped).  An exception that
\* leaves the handler is caught only by its inner `except ResourceExistsError`.
RECURSIVE Blob_upload_blob(_, _, _, _, _, _, _, _)
Blob_upload_blob(mode, r, cn, bn, b, d, kw, fault) ==
  LET o == TryBody(Dispatch(mode, kw), r, bn,
                   Impl_upload_blob(r, cn, b, d, PassKwargs(kw), fault))
  IN  IF o.exc # "ResourceNotFoundError" THEN Handle("upload_blob", o)
      ELSE
        LET cc == Blob_create_container(mode, o.r, cn, o.blob_name, NoKwargs, fault)
            up == Blob_upload_blob(mode, cc.r, cn, cc.blob_name, b, d,
                                   PassKwargs(kw), fault)
            notfound == <<Info("Container Not Found")>>
            later == <<Info("The specified container is being deleted. Try operation later.")>>
        IN  IF cc.raised = "ResourceExistsError"
            THEN Facade(cc.r, cc.blob_name, RetNone, "none",
                        notfound \o cc.log \o later, o.calls \o cc.calls, o.exc)
            ELSE IF cc.raised # "none"
            THEN Facade(cc.r, cc.blob_name, RetNone, cc.raised,
                        notfound \o cc.log, o.calls \o cc.calls, o.exc)
            ELSE IF up.raised = "ResourceExistsError"
            THEN Facade(up.r, up.blob_name, RetNone, "none",
                        notfound \o cc.log \o up.log \o later,
                        o.calls \o cc.calls \o up.calls, o.exc)
            ELSE Facade(up.r, up.blob_name, up.ret, up.raised,
                        notfound \o cc.log \o up.log,
                        o.calls \o cc.calls \o up.calls, o.exc)

\* The listing properties have no try/except: what the listing raises reaches
\* the caller.  In async mode the listing coroutine is run by run_async.
Listing(o, ret) ==
  IF o.exc = "none" THEN Facade(o.r, o.blob_name, ret, "none", <<>>, o.calls, o.exc)
  ELSE Facade(o.r, o.blob_name, RetNone, o.exc, <<>>, o.calls, o.exc)

Bool(v) == Ret(IF v THEN "True" ELSE "False", {}, {})

Blob_container_exists(mode, r, cn, bn, fault) ==
  LET o == Impl_list_container(r, bn, fault)
  IN  Listing(o, Bool(cn \in o.ret.names))

\* list_blobs returns the SDK's BlobProperties objects; `self.blob_name in`
\* that list compares a str (or None) with each of them, and a BlobProperties
\* equals only another BlobProperties.
Blob_blob_exists(mode, r, cn, bn, fault) ==
  LET o == Impl_list_blobs(r, cn, bn, fault)
  IN  Listing(o, Bool(FALSE))

Blob_blobs(mode, r, cn, bn, fault) ==
  LET o == Impl_list_blobs(r, cn, bn, fault)
  IN  Listing(o, o.ret)

-----------------------------------------------------------------------------
(* BlobBase.__init__: the credentials and the connection string.           *)
(* A Python str is a sequence of tokens; an f-string concatenates them.     *)

None == <<"None">>

\* bool(v) of a str or None
Truthy(v) == v # None /\ v # <<>>

NoAttrs == [x \in {} |-> x]

\* `b = Blob(...)` raised: the name is bound to nothing.
NoObject == [x \in {"unbound"} |-> <<>>]

Built(attrs) == [exc |-> "none", attrs |-> attrs]

Raised(exc) == [exc |-> exc, attrs |-> NoObject]

\* self.<name> = v for every name of the record or function `more`
SetAttrs(attrs, more) ==
  [x \in (DOMAIN attrs) \cup (DOMAIN more) |-> IF x \in DOMAIN more THEN more[x] ELSE attrs[x]]

\* sep.join(parts[lo..hi]), halving the range
RECURSIVE JoinRange(_, _, _, _)
JoinRange(sep, parts, lo, hi) ==
  IF lo = hi THEN parts[lo]
  ELSE LET mid == (lo + hi) \div 2
       IN  JoinRange(sep, parts, lo, mid) \o sep \o JoinRange(sep, parts, mid + 1, hi)

Join(sep, parts) ==
  The({IF p = <<>> THEN <<>> ELSE JoinRange(sep, p, 1, Len(p)) : p \in {parts}})

\* f"{protocol}://{host}:{port}/{account_name}"
Endpoint(attrs, port) ==
  attrs["_protocol"] \o <<"://">> \o attrs["_host"] \o <<":">> \o port \o <<"/">>
    \o attrs["_account_name"]

\* f"https://{account_name}.{service}.{endpoint_suffix}"
AccountUrl(attrs, service) ==
  <<"https://">> \o attrs["_account_name"] \o <<".", service, ".">> \o attrs["_endpoint_suffix"]

\* Lines 35-42: the three credential fields and their key=value strings.
Credentials(a) ==
  [_protocol |-> a.protocal,
   _protocol_string |-> <<"DefaultEndpointsProtocol=">> \o a.protocal,
   _account_name |-> a.account_name,
   _account_name_string |-> <<"AccountName=">> \o a.account_name,
   _account_key |-> a.account_key,
   _account_key_string |-> <<"AccountKey=">> \o a.account_key]

\* Lines 44-56: the local emulator fields, or the endpoint suffix.
IsLocal(a) ==
  Truthy(a.host) /\ (Truthy(a.blob_port) \/ Truthy(a.queue_port) \/ Truthy(a.table_port))

Target(a) ==
  IF IsLocal(a)
  THEN Built(SetAttrs(Credentials(a),
         [_host |-> a.host, _blob_port |-> a.blob_port,
          _queue_port |-> a.queue_port, _table_port |-> a.table_port]))
  ELSE IF Truthy(a.endpoint_suffix)
  THEN Built(SetAttrs(Credentials(a), [_endpoint_suffix |-> a.endpoint_suffix]))
  ELSE Raised("TypeError")

\* Lines 62-66: the account URLs read self._endpoint_suffix.
Urls(attrs) ==
  IF "_endpoint_suffix" \notin DOMAIN attrs THEN Raised("AttributeError")
  ELSE Built(SetAttrs(attrs,
         [account_url |-> AccountUrl(attrs, "blob"),
          account_file_url |-> AccountUrl(attrs, "file"),
          account_queue_url |-> AccountUrl(attrs, "queue"),
          account_table_url |-> AccountUrl(attrs, "table"),
          account_web_url |-> AccountUrl(attrs, "z31.web")]))

\* Lines 68-89: the key=value parts; an endpoint part reads self._host.
EndpointParts(attrs, a) ==
  (IF Truthy(a.blob_port)
   THEN <<(<<"BlobEndpoint=">> \o Endpoint(attrs, attrs["_blob_port"]))>> ELSE <<>>)
  \o (IF Truthy(a.queue_port)
      THEN <<(<<"QueueEndpoint=">> \o Endpoint(attrs, attrs["_queue_port"]))>> ELSE <<>>)
  \o (IF Truthy(a.table_port)
      THEN <<(<<"TableEndpoint=">> \o Endpoint(attrs, attrs["_table_port"]))>> ELSE <<>>)

ConnectString(attrs, a) ==
  IF (Truthy(a.blob_port) \/ Truthy(a.queue_port) \/ Truthy(a.table_port))
     /\ "_host" \notin DOMAIN attrs
  THEN Raised("AttributeError")
  ELSE Built(SetAttrs(attrs,
         [_connect_string |->
            Join(<<";">>,
                 <<attrs["_protocol_string"], attrs["_account_name_string"],
                   attrs["_account_key_string"]>>
                 \o EndpointParts(attrs, a)
                 \o (IF Truthy(a.endpoint_suffix)
                     THEN <<(<<"EndpointSuffix=">> \o a.endpoint_suffix)>> ELSE <<>>))]))

\* As BlobBase_init, but any one of the three credential fields is enough.
BlobBase_init_AnyField(a) ==
  IF Truthy(a.connect_string)
  THEN Built([_connect_string |-> a.connect_string])
  ELSE IF ~(Truthy(a.protocal) \/ Truthy(a.account_name) \/ Truthy(a.account_key))
  THEN Raised("TypeError")
  ELSE LET t == Target(a)
       IN  IF t.exc # "none" THEN t
           ELSE LET u == Urls(t.attrs)
                IN  IF u.exc # "none" THEN u ELSE ConnectString(u.attrs, a)

\* As BlobBase_init, but a connect string together with the three credential
\* fields is refused.
BlobBase_init_ExactlyOne(a) ==
  IF Truthy(a.connect_string)
  THEN IF Truthy(a.protocal) /\ Truthy(a.account_name) /\ Truthy(a.account_key)
       THEN Raised("TypeError")
       ELSE Built([_connect_string |-> a.connect_string])
  ELSE IF ~(Truthy(a.protocal) /\ Truthy(a.account_name) /\ Truthy(a.account_key))
  THEN Raised("TypeError")
  ELSE LET t == Target(a)
       IN  IF t.exc # "none" THEN t
           ELSE LET u == Urls(t.attrs)
                IN  IF u.exc # "none" THEN u ELSE ConnectString(u.attrs, a)

BlobBase_init(a) ==
  IF Truthy(a.connect_string)
  THEN Built([_connect_string |-> a.connect_string])
  ELSE IF ~(Truthy(a.protocal) /\ Truthy(a.account_name) /\ Truthy(a.account_key))
  THEN Raised("TypeError")
  ELSE LET t == Target(a)
       IN  IF t.exc # "none" THEN t
           ELSE LET u == Urls(t.attrs)
                IN  IF u.exc # "none" THEN u ELSE ConnectString(u.attrs, a)

Args(cs, pr, an, ak, es, h, bp, qp, tp) ==
  [connect_string |-> cs, protocal |-> pr, account_name |-> an, account_key |-> ak,
   endpoint_suffix |-> es, host |-> h, blob_port |-> bp, queue_port |-> qp,
   table_port |-> tp]

\* The defaults of the signature: protocal=Protocal.https,
\* endpoint_suffix="core.windows.net", everything else None.
DefaultSuffix == <<"core.windows.net">>

HostedArgs ==
  Args(None, <<"https">>, <<"acct">>, <<"key">>, DefaultSuffix, None, None, None, None)

\* The arguments a caller can pass.
ArgValues ==
  [connect_string : {None, <<>>, <<"UseDevelopmentStorage=true">>},
   protocal : {None, <<"http">>, <<"https">>},
   account_name : {None, <<"acct">>},
   account_key : {None, <<"key">>},
   endpoint_suffix : {None, DefaultSuffix},
   host : {None, <<"127.0.0.1">>},
   blob_port : {None, <<"10000">>},
   queue_port : {None, <<"10001">>},
   table_port : {None, <<"10002">>}]

\* The SDK client properties read self.account_url and self._account_key.
Client(attrs, kind, cn, bn) ==
  IF {"account_url", "_account_key"} \subseteq DOMAIN attrs
  THEN [exc |-> "none",
        client |-> <<kind, attrs["account_url"], attrs["_account_key"], cn, bn>>]
  ELSE [exc |-> "AttributeError", client |-> <<>>]

\* BlobBase.get_sas_token reads self._account_name and self._account_key;
\* the token is computed from them, the names, the permission and the expiry.
BlobBase_get_sas_token(attrs, cn, b, expiry) ==
  IF {"_account_name", "_account_key"} \subseteq DOMAIN attrs
  THEN [exc |-> "none",
        token |-> [account_name |-> attrs["_account_name"],
                   account_key |-> attrs["_account_key"],
                   container_name |-> cn, blob_name |-> b,
                   permission |-> "r", expiry |-> expiry]]
  ELSE [exc |-> "AttributeError", token |-> NoAttrs]

\* timedelta(hours=1), in ticks of the clock
Hour == 1

\* The clock when the module was imported: both `def get_sas_token` lines
\* evaluate their default expiry at that moment.
ModuleLoaded == [now |-> 0, def |-> 0]

\* The value of the default argument `expiry`.
DefaultExpiry == clock.def + Hour

\* Blob.get_sas_token passes its expiry on, given or defaulted.
Blob_get_sas_token(attrs, cn, b, given) ==
  BlobBase_get_sas_token(attrs, cn, b, IF given = {} THEN DefaultExpiry ELSE CHOOSE e \in given : TRUE)

\* No adapter is configured.
NoAdapter == [location |-> None]

\* No file has been opened; no operation is in flight.
NoFile == [name |-> None]

NoTasks == <<>>

-----------------------------------------------------------------------------
(* utils.py and azure_storage.py: names and paths.  A path is the sequence  *)
(* of its characters.  An intermediate result is bound once, as the element *)
(* of a one-element set, before it is used.                                 *)

\* str.rstrip(chars), str.lstrip(chars), str.strip(chars)
RStrip(s, chars) ==
  IF \A i \in 1..Len(s) : s[i] \in chars THEN <<>>
  ELSE SubSeq(s, 1, CHOOSE i \in 1..Len(s) :
                      s[i] \notin chars /\ \A j \in (i + 1)..Len(s) : s[j] \in chars)

LStrip(s, chars) ==
  IF \A i \in 1..Len(s) : s[i] \in chars THEN <<>>
  ELSE SubSeq(s, CHOOSE i \in 1..Len(s) :
                   s[i] \notin chars /\ \A j \in 1..(i - 1) : s[j] \in chars,
              Len(s))

Strip(s, chars) == The({LStrip(r, chars) : r \in {RStrip(s, chars)}})

StartsWith(s, p) == Len(p) <= Len(s) /\ SubSeq(s, 1, Len(p)) = p

EndsWith(s, p) == Len(p) <= Len(s) /\ SubSeq(s, Len(s) - Len(p) + 1, Len(s)) = p

\* s.count('/')
CountSlashes(s) == Cardinality({i \in 1..Len(s) : s[i] = "/"})

\* s[lo..hi].split('/'), halving the range: the last piece of the left half
\* and the first piece of the right half are one piece.
RECURSIVE SplitRange(_, _, _)
SplitRange(s, lo, hi) ==
  IF lo = hi THEN (IF s[lo] = "/" THEN <<(<<>>), (<<>>)>> ELSE <<(<<s[lo]>>)>>)
  ELSE The({SubSeq(l, 1, Len(l) - 1) \o <<(l[Len(l)] \o r[1])>> \o Tail(r) :
              l \in {SplitRange(s, lo, (lo + hi) \div 2)},
              r \in {SplitRange(s, (lo + hi) \div 2 + 1, hi)}})

Split(s) == IF s = <<>> THEN <<(<<>>)>> ELSE SplitRange(s, 1, Len(s))

\* posixpath.join(a, p) for one component p
posixpath_join(a, p) ==
  IF StartsWith(p, <<"/">>) THEN p
  ELSE IF a = <<>> \/ EndsWith(a, <<"/">>) THEN a \o p
  ELSE a \o <<"/">> \o p

\* What the right half of a range does to what the left half left: its '..'
\* pop the names of the left half.
Popped(l, r) ==
  IF r.ups <= Len(l.names)
  THEN [ups |-> l.ups, names |-> SubSeq(l.names, 1, Len(l.names) - r.ups) \o r.names]
  ELSE [ups |-> l.ups + r.ups - Len(l.names), names |-> r.names]

\* The loop of posixpath.normpath over comps[lo..hi], halving the range.  The
\* loop keeps a stack: '' and '.' are skipped, a name is pushed, '..' pops a
\* name, and on an empty stack (or on '..') it is pushed itself.  What a range
\* leaves is so many '..' followed by names.
RECURSIVE CollapseRange(_, _, _)
CollapseRange(comps, lo, hi) ==
  IF lo = hi
  THEN (IF comps[lo] = <<>> \/ comps[lo] = <<".">> THEN [ups |-> 0, names |-> <<>>]
        ELSE IF comps[lo] = <<".", ".">> THEN [ups |-> 1, names |-> <<>>]
        ELSE [ups |-> 0, names |-> <<comps[lo]>>])
  ELSE The({Popped(l, r) :
              l \in {CollapseRange(comps, lo, (lo + hi) \div 2)},
              r \in {CollapseRange(comps, (lo + hi) \div 2 + 1, hi)}})

\* new_comps after the loop: below the root a '..' that finds the stack empty
\* is dropped, in a relative path it stays.
Collapse(comps, initial_slashes) ==
  The({IF initial_slashes = 0 THEN [i \in 1..c.ups |-> <<".", ".">>] \o c.names
       ELSE c.names :
         c \in {CollapseRange(comps, 1, Len(comps))}})

\* initial_slashes of posixpath.normpath: 0, 1, or 2 for exactly two
InitialSlashes(path) ==
  IF ~StartsWith(path, <<"/">>) THEN 0
  ELSE IF StartsWith(path, <<"/", "/">>) /\ ~StartsWith(path, <<"/", "/", "/">>)
  THEN 2 ELSE 1

\* The path is an evaluated value here.
normpath(path) ==
  IF path = <<>> THEN <<".">>
  ELSE The({IF out = <<>> THEN <<".">> ELSE out :
              out \in {The({[i \in 1..InitialSlashes(path) |-> "/"]
                              \o Join(<<"/">>, Collapse(comps, InitialSlashes(path))) :
                                comps \in {Split(path)}})}})

posixpath_normpath(path) == The({normpath(p) : p \in {path}})

\* str.replace('\\', '/')
ReplaceBackslash(s) == [i \in 1..Len(s) |-> IF s[i] = "\\" THEN "/" ELSE s[i]]

\* Lines 23-31 of clean_name, normal being the normalized name.
Trailed(name, normal) ==
  IF EndsWith(name, <<"/">>) /\ ~EndsWith(normal, <<"/">>)
  THEN normal \o <<"/">>
  ELSE IF normal = <<".">> THEN <<>> ELSE normal

clean_name(name) ==
  The({Trailed(name, normal) :
         normal \in {The({ReplaceBackslash(n) : n \in {posixpath_normpath(name)}})}})

\* The loop of safe_join over the components, from the i-th on.
RECURSIVE JoinAll(_, _, _)
JoinAll(final_path, paths, i) ==
  IF i > Len(paths) THEN final_path
  ELSE The({JoinAll(IF EndsWith(paths[i], <<"/">>) \/ normal \o <<"/">> = final_path
                    THEN normal \o <<"/">> ELSE normal,
                    paths, i + 1) :
              normal \in {posixpath_normpath(posixpath_join(final_path, paths[i]))}})

\* Lines 57-67 of safe_join: the test of the joined path, and the result.
Inside(base_path, final_path) ==
  IF ~StartsWith(final_path, base_path) \/ final_path[Len(base_path) + 1] # "/"
  THEN [exc |-> "ValueError", final_path |-> final_path, ret |-> <<>>]
  ELSE [exc |-> "none", final_path |-> final_path, ret |-> LStrip(final_path, {"/"})]

\* safe_join(base, *paths): the joined path, what is returned, what is raised.
safe_join(base, paths) ==
  The({The({Inside(base_path, IF joined = base_path THEN joined \o <<"/">> ELSE joined) :
              joined \in {The({JoinAll(start, paths, 1) : start \in {base_path \o <<"/">>}})}}) :
         base_path \in {IF Truthy(base) THEN RStrip(base, {"/"}) ELSE <<>>}})

\* _AZURE_NAME_MAX_LEN, and the most slashes a name may have
AZURE_NAME_MAX_LEN == 1024
MaxSlashes == 256

\* As get_valid_path, but a name of exactly the maximal length is refused.
get_valid_path_BelowCap(s) ==
  The({IF Len(t) >= AZURE_NAME_MAX_LEN THEN [exc |-> "ValueError", ret |-> <<>>]
       ELSE IF Len(t) = 0 THEN [exc |-> "ValueError", ret |-> <<>>]
       ELSE IF CountSlashes(t) > MaxSlashes THEN [exc |-> "ValueError", ret |-> <<>>]
       ELSE [exc |-> "none", ret |-> t] :
         t \in {Strip(s, {".", "/"})}})

\* _get_valid_path(s) of the module
get_valid_path(s) ==
  The({IF Len(t) > AZURE_NAME_MAX_LEN THEN [exc |-> "ValueError", ret |-> <<>>]
       ELSE IF Len(t) = 0 THEN [exc |-> "ValueError", ret |-> <<>>]
       ELSE IF CountSlashes(t) > MaxSlashes THEN [exc |-> "ValueError", ret |-> <<>>]
       ELSE [exc |-> "none", ret |-> t] :
         t \in {Strip(s, {".", "/"})}})

\* AzureStorage._normalize_name
AzureStorage_normalize_name(location, name) ==
  The({IF j.exc = "ValueError" THEN [exc |-> "SuspiciousOperation", ret |-> <<>>]
       ELSE [exc |-> "none", ret |-> j.ret] :
         j \in {safe_join(location, <<name>>)}})

\* AzureStorage._get_valid_path
AzureStorage_get_valid_path(location, name) ==
  The({IF n.exc # "none" THEN n ELSE get_valid_path(n.ret) :
         n \in {The({AzureStorage_normalize_name(location, cleaned) :
                       cleaned \in {clean_name(name)}})}})

\* The outcome of an adapter method: the account afterwards, what is raised,
\* what is returned, and the blob name handed to the SDK (None when the SDK
\* was not called).
Adapted(r, exc, ret, sent) == [r |-> r, exc |-> exc, ret |-> ret, sent |-> sent]

\* Lines 148-157 of _save: the upload, and what becomes of what it raises.
Uploaded(a, r, cleaned_name, name, d, fault) ==
  The({IF up.exc = "none" THEN Adapted(up.r, "none", cleaned_name, name)
       ELSE IF up.exc = "ResourceExistsError" THEN Adapted(r, "none", None, name)
       ELSE Adapted(r, up.exc, None, name) :
         up \in {sdk_upload_blob(r, a.container_name, name, d, FALSE, fault)}})

\* AzureStorage._save.  `async with self._container_client_async` is given
\* the coroutine of an async property, which is no context manager: noasync
\* is what the interpreter raises for that (AttributeError or TypeError, by
\* its version).
AzureStorage_save(a, r, name, d, fault, noasync) ==
  The({IF valid.exc # "none" THEN Adapted(r, valid.exc, None, None)
       ELSE IF a.run_async THEN Adapted(r, noasync, None, None)
       ELSE The({Uploaded(a, r, cleaned_name, valid.ret, d, fault) :
                   cleaned_name \in {clean_name(name)}}) :
         valid \in {AzureStorage_get_valid_path(a.location, name)}})

\* AzureStorage._open: the file object keeps the name as given.
AzureStorage_open(a, r, name, mode) ==
  Adapted(r, "none", [name |-> name, mode |-> mode], None)

\* A Python list of names, as a method returns it (the order is the
\* service's); a tuple would be [type |-> "tuple", items |-> <<...>>].
PyList(names) == [type |-> "list", items |-> names]

\* AzureStorage.listdir: the names of all blobs of the container in one
\* list; `path` is not read.
AzureStorage_listdir(a, r, path, fault) ==
  The({IF s.exc # "none" THEN Adapted(r, s.exc, None, None)
       ELSE Adapted(r, "none", PyList(s.ret.names), None) :
         s \in {sdk_list_blobs(r, a.container_name, fault)}})

\* AzureStorage.exists: `name in` the list of all blob names; the name is
\* compared as given.
AzureStorage_exists(a, r, name, fault) ==
  The({IF s.exc # "none" THEN Adapted(r, s.exc, None, None)
       ELSE Adapted(r, "none", name \in s.ret.names, None) :
         s \in {sdk_list_blobs(r, a.container_name, fault)}})

\* AzureStorage.delete: the name goes to the SDK as given.
AzureStorage_delete(a, r, name, fault) ==
  The({Adapted(s.r, s.exc, None, name) :
         s \in {sdk_delete_blob(r, a.container_name, name, fault)}})

\* AzureStorage.size: get_blob_client(name, timeout=...) and then the size
\* of get_blob_properties().  `takes_timeout` is whether get_blob_client of
\* the installed SDK accepts a timeout keyword; the size of a payload is
\* written as the payload.
AzureStorage_size(a, r, name, fault, takes_timeout) ==
  IF ~takes_timeout THEN Adapted(r, "TypeError", None, None)
  ELSE The({IF s.exc # "none" THEN Adapted(r, s.exc, None, name)
            ELSE Adapted(r, "none", [size_of |-> s.ret.data], name) :
              s \in {sdk_get_blob_properties(r, a.container_name, name, fault)}})

\* AzureStorage._get_valid_path applied to its own result: `first` is the
\* outcome for the name, `second` the outcome for what the first returned
\* (None when the first raised).
Reapplied(location, name) ==
  The({[first |-> first,
        second |-> IF first.exc = "none"
                   THEN AzureStorage_get_valid_path(location, first.ret)
                   ELSE [exc |-> "none", ret |-> None]] :
         first \in {AzureStorage_get_valid_path(location, name)}})

\* `ch in mode`, for a mode such as 'rb'
Has(mode, ch) == \E i \in 1..Len(mode) : mode[i] = ch

\* The attributes AzureStorageFile.__init__ sets; its base class File adds
\* the file interface (read, seek, size, ...) and nothing named timeout.
FileAttrs == {"name", "mode", "_storage", "_file", "_path"}

\* AzureStorageFile.__init__: _file is {} for None, {buffer} once it is set.
AzureStorageFile_init(name, mode) == [name |-> name, mode |-> mode, _file |-> {}]

\* A new SpooledTemporaryFile: nothing written, position 0.  The position
\* counts the payloads written before it.
SpooledTemporaryFile == [data |-> {}, pos |-> 0]

\* What a download gives _get_file: what it raised, what it wrote into the
\* buffer, the blob name the SDK was asked for (None: the SDK was not asked).
Downloaded(exc, data, sent) == [exc |-> exc, data |-> data, sent |-> sent]

\* AzureStorageFile.download_file: the arguments of download_blob are
\* evaluated before the call, and self.timeout is among them.
AzureStorageFile_download_file(f, a, r, fault) ==
  IF "timeout" \notin FileAttrs THEN Downloaded("AttributeError", {}, None)
  ELSE The({Downloaded(s.exc, s.ret.data, f.name) :
              s \in {sdk_download_blob(r, a.container_name, f.name, fault)}})

\* AzureStorageFile.download_file_async: `async with` is given the coroutine
\* of the async property _container_client_async; noasync is what the
\* interpreter raises for that.
AzureStorageFile_download_file_async(f, a, r, fault, noasync) ==
  Downloaded(noasync, {}, None)

\* AzureStorageFile._get_file, the getter of the property `file`: the file
\* object afterwards, what is raised, the buffer returned, the name the SDK
\* was asked for.
Got(f, exc, ret, sent) == [f |-> f, exc |-> exc, ret |-> ret, sent |-> sent]

AzureStorageFile_get_file(f, a, r, fault, noasync) ==
  IF f._file # {} THEN Got(f, "none", f._file, None)
  ELSE IF Has(f.mode, "r") \/ Has(f.mode, "a")
  THEN The({IF dl.exc # "none" THEN Got(f, dl.exc, {}, dl.sent)
            ELSE The({Got([f EXCEPT !._file = {file}], "none", {file}, dl.sent) :
                        file \in {[data |-> dl.data,
                                   pos |-> IF Has(f.mode, "r") THEN 0
                                           ELSE Cardinality(dl.data)]}}) :
              dl \in {IF a.run_async
                      THEN AzureStorageFile_download_file_async(f, a, r, fault, noasync)
                      ELSE AzureStorageFile_download_file(f, a, r, fault)}})
  ELSE Got([f EXCEPT !._file = {SpooledTemporaryFile}], "none", {SpooledTemporaryFile}, None)

\* The blob name a client's request goes to.  As the name the client reads
\* at the moment of the request: the current name, whoever assigned it last.
BlobClient_name_Current(client, current) == current

\* A BlobClient is constructed with blob_name=self.blob_name (the fifth
\* argument of Client): the name is read once, when the property
\* _blob_client is evaluated, and every request of that client goes to it.
BlobClient_name(client, current) == client[5]

\* The SDK request a blob method of BlobSync / BlobAsync makes through its
\* client, against the client's container and the blob named bn.
Request(op, r, cn, bn, d) ==
  IF bn = {} THEN Sdk(r, "ValueError", RetNone)
  ELSE The({CASE op = "upload_blob" -> sdk_upload_blob(r, cn, b, d, FALSE, FALSE)
              [] op = "delete_blob" -> sdk_delete_blob(r, cn, b, FALSE)
              [] op = "blob_properties" -> sdk_get_blob_properties(r, cn, b, FALSE)
              [] OTHER -> sdk_download_blob(r, cn, b, FALSE) :
              b \in bn})

-----------------------------------------------------------------------------
(* The state machine.                                                       *)

Remote == [status |-> status, content |-> content]

FacadeOps == {"create_container", "delete_container", "upload_blob", "download_blob",
              "read_blob", "delete_blob", "blob_properties", "walk_blobs"}

ListingOps == {"container_exists", "blob_exists", "blobs"}

\* The stored payload of blob b of the current container: {} when there is none.
Stored(b) ==
  IF b # {} /\ (b \cap DOMAIN content[container_name]) # {}
  THEN {content[container_name][x] : x \in b}
  ELSE {}

\* The step before was this same call: same method, same arguments, same
\* current container, same behaviour of the network.
SameCall(rec, op, kw, b, d, nargs, fault) ==
  /\ rec.op = op /\ rec.raw = kw.raw /\ rec.overwrite = kw.overwrite
  /\ rec.c = container_name /\ rec.b = b /\ rec.d = d
  /\ rec.nargs = nargs /\ rec.fault = fault

\* The record of a facade call: o is its outcome, tw the outcome the same call
\* has, from the same state, on a facade constructed in the other mode.
Call(op, kw, b, d, nargs, fault, o, tw) ==
  [op |-> op, raw |-> kw.raw, overwrite |-> kw.overwrite, c |-> container_name,
   b |-> b, d |-> d, nargs |-> nargs, fault |-> fault,
   preStatus |-> status[container_name], preBlob |-> Stored(b),
   exc |-> o.exc, ret |-> o.ret, raised |-> o.raised, log |-> o.log,
   calls |-> o.calls, unchanged |-> (o.r = Remote),
   again |-> SameCall(last, op, kw, b, d, nargs, fault),
   twin |-> [ret |-> tw.ret, raised |-> tw.raised, r |-> tw.r]]

\* The record of a step that is no facade call.
Step(op) ==
  [op |-> op, raw |-> "absent", overwrite |-> FALSE, c |-> container_name,
   b |-> {}, d |-> {}, nargs |-> 0, fault |-> FALSE,
   preStatus |-> status[container_name], preBlob |-> {},
   exc |-> "none", ret |-> RetNone, raised |-> "none", log |-> <<>>,
   calls |-> <<>>, unchanged |-> TRUE, again |-> FALSE,
   twin |-> [ret |-> RetNone, raised |-> "none", r |-> Remote]]

\* The facade after construction, on an account with no containers yet.
Init ==
  /\ status = [c \in Containers |-> "absent"]
  /\ content = [c \in Containers |-> NoBlobs]
  /\ isasync \in BOOLEAN
  /\ container_name \in Containers
  /\ blob_name \in {{}} \cup {{b} : b \in Blobs}
  /\ last = Step("init")
  /\ self_blob = BlobBase_init(HostedArgs).attrs
  /\ clock = ModuleLoaded
  /\ storage_file = NoFile
  /\ tasks = NoTasks
  /\ adapter = NoAdapter

\* The effect of a facade call on the state.
Apply(o, rec) ==
  /\ status' = o.r.status
  /\ content' = o.r.content
  /\ blob_name' = o.blob_name
  /\ last' = rec
  /\ UNCHANGED <<isasync, container_name, fixed>>

create_container ==
  \E raw \in RawValues, fault \in BOOLEAN :
    LET kw == Kwargs(raw, FALSE)
        o == Blob_create_container(isasync, Remote, container_name, blob_name, kw, fault)
        tw == Blob_create_container(~isasync, Remote, container_name, blob_name, kw, fault)
    IN  Apply(o, Call("create_container", kw, {}, {}, 0, fault, o, tw))

delete_container ==
  \E raw \in RawValues, fault \in BOOLEAN :
    LET kw == Kwargs(raw, FALSE)
        o == Blob_delete_container(isasync, Remote, container_name, blob_name, kw, fault)
        tw == Blob_delete_container(~isasync, Remote, container_name, blob_name, kw, fault)
    IN  Apply(o, Call("delete_container", kw, {}, {}, 0, fault, o, tw))

upload_blob ==
  \E b \in Blobs, d \in Data, raw \in RawValues, overwrite \in BOOLEAN, fault \in BOOLEAN :
    LET kw == Kwargs(raw, overwrite)
        o == Blob_upload_blob(isasync, Remote, container_name, blob_name, b, d, kw, fault)
        tw == Blob_upload_blob(~isasync, Remote, container_name, blob_name, b, d, kw, fault)
    IN  Apply(o, Call("upload_blob", kw, {b}, {d}, 0, fault, o, tw))

download_blob ==
  \E b \in Blobs, raw \in RawValues, fault \in BOOLEAN :
    LET kw == Kwargs(raw, FALSE)
        o == Blob_download_blob(isasync, Remote, container_name, blob_name, b, kw, fault)
        tw == Blob_download_blob(~isasync, Remote, container_name, blob_name, b, kw, fault)
    IN  Apply(o, Call("download_blob", kw, {b}, {}, 0, fault, o, tw))

read_blob ==
  \E b \in Blobs, raw \in RawValues, fault \in BOOLEAN :
    LET kw == Kwargs(raw, FALSE)
        o == Blob_read_blob(isasync, Remote, container_name, blob_name, b, kw, fault)
        tw == Blob_read_blob(~isasync, Remote, container_name, blob_name, b, kw, fault)
    IN  Apply(o, Call("read_blob", kw, {b}, {}, 0, fault, o, tw))

delete_blob ==
  \E b \in Blobs, raw \in RawValues, fault \in BOOLEAN :
    LET kw == Kwargs(raw, FALSE)
        o == Blob_delete_blob(isasync, Remote, container_name, blob_name, b, kw, fault)
        tw == Blob_delete_blob(~isasync, Remote, container_name, blob_name, b, kw, fault)
    IN  Apply(o, Call("delete_blob", kw, {b}, {}, 0, fault, o, tw))

blob_properties ==
  \E b \in Blobs, raw \in RawValues, fault \in BOOLEAN :
    LET kw == Kwargs(raw, FALSE)
        o == Blob_blob_properties(isasync, Remote, container_name, blob_name, b, kw, fault)
        tw == Blob_blob_properties(~isasync, Remote, container_name, blob_name, b, kw, fault)
    IN  Apply(o, Call("blob_properties", kw, {b}, {}, 0, fault, o, tw))

walk_blobs ==
  \E nargs \in {0, 1}, raw \in RawValues, fault \in BOOLEAN :
    LET kw == Kwargs(raw, FALSE)
        o == Blob_walk_blobs(isasync, Remote, container_name, blob_name, nargs, kw, fault)
        tw == Blob_walk_blobs(~isasync, Remote, container_name, blob_name, nargs, kw, fault)
    IN  Apply(o, Call("walk_blobs", kw, {}, {}, nargs, fault, o, tw))

container_exists ==
  \E fault \in BOOLEAN :
    LET o == Blob_container_exists(isasync, Remote, container_name, blob_name, fault)
        tw == Blob_container_exists(~isasync, Remote, container_name, blob_name, fault)
    IN  Apply(o, Call("container_exists", NoKwargs, {}, {}, 0, fault, o, tw))

blob_exists ==
  \E fault \in BOOLEAN :
    LET o == Blob_blob_exists(isasync, Remote, container_name, blob_name, fault)
        tw == Blob_blob_exists(~isasync, Remote, container_name, blob_name, fault)
    IN  Apply(o, Call("blob_exists", NoKwargs, blob_name, {}, 0, fault, o, tw))

blobs ==
  \E fault \in BOOLEAN :
    LET o == Blob_blobs(isasync, Remote, container_name, blob_name, fault)
        tw == Blob_blobs(~isasync, Remote, container_name, blob_name, fault)
    IN  Apply(o, Call("blobs", NoKwargs, {}, {}, 0, fault, o, tw))

\* container_name.setter
set_container_name ==
  \E c \in Containers :
    /\ container_name' = c
    /\ last' = [Step("set_container_name") EXCEPT !.c = c, !.preStatus = status[c]]
    /\ UNCHANGED <<status, content, isasync, blob_name, fixed>>

\* blob_name.setter
set_blob_name ==
  \E b \in Blobs :
    /\ blob_name' = {b}
    /\ last' = Step("set_blob_name")
    /\ UNCHANGED <<status, content, isasync, container_name, fixed>>

\* The service finishes deleting a container: its name is free again.
ServiceCollects ==
  \E c \in Containers :
    /\ status[c] = "deleting"
    /\ status' = [status EXCEPT ![c] = "absent"]
    /\ last' = Step("collected")
    /\ UNCHANGED <<content, isasync, container_name, blob_name, fixed>>

Next ==
  \/ create_container
  \/ delete_container
  \/ upload_blob
  \/ download_blob
  \/ read_blob
  \/ delete_blob
  \/ blob_properties
  \/ walk_blobs
  \/ container_exists
  \/ blob_exists
  \/ blobs
  \/ set_container_name
  \/ set_blob_name
  \/ ServiceCollects

Spec == Init /\ [][Next]_vars

-----------------------------------------------------------------------------
(* Construction and use of the wrapped object: the module is imported, a    *)
(* facade is constructed from the caller's arguments, time passes, clients  *)
(* and tokens are asked of it.                                              *)

\* How far the clock runs.
MaxClock == 2

SdkClients == {"_service_client", "_container_client", "_blob_client"}

\* The record of a step of this machine.
CtorStep(op, a, exc, given, token, client) ==
  [op |-> op, args |-> a, exc |-> exc, given |-> given, token |-> token,
   client |-> client, now |-> clock.now]

CtorInit ==
  /\ status = [c \in Containers |-> "absent"]
  /\ content = [c \in Containers |-> NoBlobs]
  /\ isasync = FALSE
  /\ container_name \in Containers
  /\ blob_name = {}
  /\ self_blob = NoObject
  /\ clock = ModuleLoaded
  /\ storage_file = NoFile
  /\ tasks = NoTasks
  /\ adapter = NoAdapter
  /\ last = CtorStep("import", HostedArgs, "none", {}, NoAttrs, <<>>)

\* Blob.__init__: the wrapped object is built first; what its constructor
\* raises leaves the caller without an object.  The caller constructs a
\* facade while it holds none; after a failure it tries again later.
Blob_init ==
  \E a \in ArgValues, mode \in BOOLEAN, cn \in Containers,
     bn \in {{}} \cup {{b} : b \in Blobs} :
    LET res == BlobBase_init(a)
    IN  /\ last.op \in {"import", "tick"}
        /\ self_blob = NoObject
        /\ self_blob' = res.attrs
        /\ isasync' = IF res.exc = "none" THEN mode ELSE isasync
        /\ container_name' = IF res.exc = "none" THEN cn ELSE container_name
        /\ blob_name' = IF res.exc = "none" THEN bn ELSE blob_name
        /\ last' = CtorStep("Blob", a, res.exc, {}, NoAttrs, <<>>)
        /\ UNCHANGED <<status, content, clock, adapter, storage_file, tasks>>

Tick ==
  /\ clock.now < MaxClock
  /\ clock' = [clock EXCEPT !.now = @ + 1]
  /\ last' = [CtorStep("tick", HostedArgs, "none", {}, NoAttrs, <<>>) EXCEPT !.now = clock.now + 1]
  /\ UNCHANGED <<status, content, isasync, container_name, blob_name, self_blob, adapter, storage_file, tasks>>

get_sas_token ==
  \E b \in Blobs, given \in {{}} \cup {{e} : e \in 0..(MaxClock + Hour)} :
    LET res == Blob_get_sas_token(self_blob, container_name, b, given)
    IN  /\ self_blob # NoObject
        /\ last' = CtorStep("get_sas_token", HostedArgs, res.exc, given, res.token, <<>>)
        /\ UNCHANGED <<status, content, isasync, container_name, blob_name, self_blob, clock,
                       adapter, storage_file, tasks>>

\* Every operation of BlobSync / BlobAsync starts by building its SDK client.
sdk_client ==
  \E kind \in SdkClients :
    LET res == Client(self_blob, kind, container_name, blob_name)
    IN  /\ self_blob # NoObject
        /\ last' = CtorStep(kind, HostedArgs, res.exc, {}, NoAttrs, res.client)
        /\ UNCHANGED <<status, content, isasync, container_name, blob_name, self_blob, clock,
                       adapter, storage_file, tasks>>

CtorNext ==
  \/ Blob_init
  \/ Tick
  \/ get_sas_token
  \/ sdk_client

CtorSpec == CtorInit /\ [][CtorNext]_vars

-----------------------------------------------------------------------------
(* safe_join on its own: a base and a list of components are chosen, then   *)
(* joined.                                                                  *)

\* The longest base, the longest component, the most components.
MaxBaseLen == 2
MaxCompLen == 2
MaxComps == 2

PathChars == {"a", ".", "/"}

\* Every str over the characters of at most n characters
Strings(chars, n) == UNION {[1..k -> chars] : k \in 0..n}

JoinStep(op, b, paths, res) ==
  [op |-> op, base |-> b, paths |-> paths, exc |-> res.exc,
   final_path |-> res.final_path, ret |-> res.ret]

JoinInit ==
  /\ status = [c \in Containers |-> "absent"]
  /\ content = [c \in Containers |-> NoBlobs]
  /\ isasync = FALSE
  /\ container_name \in Containers
  /\ blob_name = {}
  /\ self_blob = NoObject
  /\ clock = ModuleLoaded
  /\ storage_file = NoFile
  /\ tasks = NoTasks
  /\ adapter = NoAdapter
  /\ \E b \in Strings(PathChars, MaxBaseLen) \cup {None},
        paths \in UNION {[1..k -> Strings(PathChars, MaxCompLen)] : k \in 0..MaxComps} :
       last = JoinStep("arguments", b, paths,
                       [exc |-> "none", final_path |-> <<>>, ret |-> <<>>])

safe_join_call ==
  /\ last.op = "arguments"
  /\ \E res \in {safe_join(last.base, last.paths)} :
       last' = JoinStep("safe_join", last.base, last.paths, res)
  /\ UNCHANGED <<status, content, isasync, container_name, blob_name, self_blob, clock,
                 adapter, storage_file, tasks>>

JoinNext == safe_join_call

JoinSpec == JoinInit /\ [][JoinNext]_vars

-----------------------------------------------------------------------------
(* The AzureStorage adapter over one container of the account.              *)

\* The longest name tried, and how many blobs the container may hold.
MaxNameLen == 2
MaxStored == 1

EtcPasswd ==
  <<".", ".", "/", ".", ".", "/", "e", "t", "c", "/", "p", "a", "s", "s", "w", "d">>

\* The names a caller saves and opens.
Names == Strings(PathChars, MaxNameLen) \cup {EtcPasswd, <<" ">>, <<" ", " ">>}

\* STATIC_ROOT is not set, or is an absolute directory.
Locations == {None, <<"/", "r">>}

Settings(location, run_async) ==
  [location |-> location, run_async |-> run_async, container_name |-> "c1"]

StorageStep(op, name, d, fault, o) ==
  [op |-> op, name |-> name, d |-> d, fault |-> fault, exc |-> o.exc, ret |-> o.ret,
   sent |-> o.sent, unchanged |-> (o.r = Remote)]

StorageInit ==
  /\ status = [c \in Containers |-> "present"]
  /\ content = [c \in Containers |-> NoBlobs]
  /\ isasync = FALSE
  /\ container_name \in Containers
  /\ blob_name = {}
  /\ self_blob = NoObject
  /\ clock = ModuleLoaded
  /\ storage_file = NoFile
  /\ tasks = NoTasks
  /\ \E location \in Locations, run_async \in BOOLEAN :
       adapter = Settings(location, run_async)
  /\ last = StorageStep("settings", <<>>, {}, FALSE, Adapted(Remote, "none", None, None))

Adapt(o, rec) ==
  /\ status' = o.r.status
  /\ content' = o.r.content
  /\ last' = rec
  /\ UNCHANGED <<isasync, container_name, blob_name, self_blob, clock, adapter, storage_file, tasks>>

save ==
  \E name \in Names, d \in Data, fault \in BOOLEAN,
     noasync \in (IF adapter.run_async THEN {"AttributeError", "TypeError"} ELSE {"none"}) :
    \E o \in {AzureStorage_save(adapter, Remote, name, d, fault, noasync)} :
      /\ Cardinality(DOMAIN o.r.content[adapter.container_name]) <= MaxStored
      /\ Adapt(o, StorageStep("save", name, {d}, fault, o))

open ==
  \E name \in Names, mode \in {"rb", "wb"} :
    \E o \in {AzureStorage_open(adapter, Remote, name, mode)} :
      Adapt(o, StorageStep("open", name, {}, FALSE, o))

listdir ==
  \E path \in {<<>>, <<"a">>}, fault \in BOOLEAN :
    \E o \in {AzureStorage_listdir(adapter, Remote, path, fault)} :
      Adapt(o, StorageStep("listdir", path, {}, fault, o))

exists ==
  \E name \in Names, fault \in BOOLEAN :
    \E o \in {AzureStorage_exists(adapter, Remote, name, fault)} :
      Adapt(o, StorageStep("exists", name, {}, fault, o))

delete ==
  \E name \in Names, fault \in BOOLEAN :
    \E o \in {AzureStorage_delete(adapter, Remote, name, fault)} :
      Adapt(o, StorageStep("delete", name, {}, fault, o))

size ==
  \E name \in Names, fault \in BOOLEAN, takes_timeout \in BOOLEAN :
    \E o \in {AzureStorage_size(adapter, Remote, name, fault, takes_timeout)} :
      Adapt(o, StorageStep("size", name, {}, fault, o))

\* A caller hands _get_valid_path a name, and then what it returned.
valid_path ==
  \E name \in Names :
    \E v \in {Reapplied(adapter.location, name)} :
      /\ last' = [op |-> "_get_valid_path", name |-> name, exc |-> v.first.exc,
                  ret |-> v.first.ret, second |-> v.second]
      /\ UNCHANGED <<status, content, isasync, container_name, blob_name, self_blob, clock,
                     adapter, storage_file, tasks>>

StorageNext ==
  \/ save
  \/ open
  \/ listdir
  \/ exists
  \/ delete
  \/ size
  \/ valid_path

StorageSpec == StorageInit /\ [][StorageNext]_vars

-----------------------------------------------------------------------------
(* One save of a long name, around the two caps.                            *)

\* How far around the caps the lengths and the slash counts go.
Slack == 1

\* A name of n characters with k slashes: k times "a/", then "a"s; a dotted
\* name ends in '.' instead of 'a'.
LongName(n, k, dotted) ==
  [i \in 1..n |-> IF i <= 2 * k THEN (IF i % 2 = 0 THEN "/" ELSE "a")
                  ELSE IF dotted /\ i = n THEN "." ELSE "a"]

LongNames ==
  {LongName(n, k, dotted) :
     n \in (AZURE_NAME_MAX_LEN - Slack - 2)..(AZURE_NAME_MAX_LEN + Slack + 1),
     k \in (MaxSlashes - Slack - 1)..(MaxSlashes + Slack),
     dotted \in BOOLEAN}

CapInit ==
  /\ status = [c \in Containers |-> "present"]
  /\ content = [c \in Containers |-> NoBlobs]
  /\ isasync = FALSE
  /\ container_name \in Containers
  /\ blob_name = {}
  /\ self_blob = NoObject
  /\ clock = ModuleLoaded
  /\ storage_file = NoFile
  /\ tasks = NoTasks
  /\ \E location \in Locations, run_async \in BOOLEAN :
       adapter = Settings(location, run_async)
  /\ \E name \in LongNames :
       last = StorageStep("name", name, {}, FALSE, Adapted(Remote, "none", None, None))

save_long ==
  \E d \in Data,
     noasync \in (IF adapter.run_async THEN {"AttributeError", "TypeError"} ELSE {"none"}) :
    /\ last.op = "name"
    /\ \E o \in {AzureStorage_save(adapter, Remote, last.name, d, FALSE, noasync)} :
         Adapt(o, StorageStep("save", last.name, {d}, FALSE, o))

CapNext == save_long

CapSpec == CapInit /\ [][CapNext]_vars

-----------------------------------------------------------------------------
(* A file object of the adapter: it is opened, and its `file` is read.      *)

\* The blobs the container may hold, and the modes a file is opened in.
FileNames == {<<"a">>, <<"b">>}

Modes == {<<"r", "b">>, <<"w", "b">>, <<"a", "b">>}

FileStep(op, fault, first, o) ==
  [op |-> op, fault |-> fault, first |-> first, exc |-> o.exc, ret |-> o.ret,
   sent |-> o.sent]

FileInit ==
  /\ status = [c \in Containers |-> "present"]
  /\ \E names \in SUBSET FileNames :
       \E held \in [names -> Data] : content = [c \in Containers |-> held]
  /\ isasync = FALSE
  /\ container_name \in Containers
  /\ blob_name = {}
  /\ self_blob = NoObject
  /\ clock = ModuleLoaded
  /\ storage_file = NoFile
  /\ tasks = NoTasks
  /\ \E location \in Locations, run_async \in BOOLEAN :
       adapter = Settings(location, run_async)
  /\ last = FileStep("settings", FALSE, FALSE, Got(NoFile, "none", {}, None))

\* storage._open(name, mode): the caller keeps the file object.
open_file ==
  \E name \in FileNames, mode \in Modes :
    \E o \in {AzureStorage_open(adapter, Remote, name, mode)} :
      /\ storage_file' = AzureStorageFile_init(o.ret.name, o.ret.mode)
      /\ last' = FileStep("open", FALSE, FALSE, Got(NoFile, o.exc, {}, o.sent))
      /\ UNCHANGED <<status, content, isasync, container_name, blob_name, self_blob, clock,
                     adapter, tasks>>

\* An access to the property `file` of the file object.
get_file ==
  \E fault \in BOOLEAN,
     noasync \in (IF adapter.run_async THEN {"AttributeError", "TypeError"} ELSE {"none"}) :
    /\ storage_file # NoFile
    /\ \E o \in {AzureStorageFile_get_file(storage_file, adapter, Remote, fault, noasync)} :
         /\ storage_file' = o.f
         /\ last' = FileStep("file", fault, storage_file._file = {}, o)
         /\ UNCHANGED <<status, content, isasync, container_name, blob_name, self_blob,
                        clock, adapter, tasks>>

FileNext ==
  \/ open_file
  \/ get_file

FileSpec == FileInit /\ [][FileNext]_vars

-----------------------------------------------------------------------------
(* Several operations in flight on one facade: threads on a sync facade,    *)
(* coroutines of one event loop on an async one.  A thread may be switched  *)
(* between any two statements; a coroutine runs from an await to the next.  *)

TaskIds == {"t1", "t2"}

TaskBlobs == {"x", "y"}

\* The facade methods that end in a blob method of the wrapped object
TaskOps == {"blob_properties", "upload_blob", "download_blob", "read_blob", "delete_blob"}

\* A task: the call, where it stands, the client it has built, the blob
\* name its request went to, what the request raised.
Task(op, b, d, pc, client, sent, exc) ==
  [op |-> op, b |-> b, d |-> d, pc |-> pc, client |-> client, sent |-> sent, exc |-> exc]

Idle == Task("none", "x", {}, "idle", <<>>, {}, "none")

TaskStep(op, t) == [op |-> op, task |-> t]

TaskInit ==
  /\ status = [c \in Containers |-> "present"]
  /\ content = [c \in Containers |-> NoBlobs]
  /\ isasync \in BOOLEAN
  /\ container_name \in Containers
  /\ blob_name = {}
  /\ self_blob = BlobBase_init(HostedArgs).attrs
  /\ clock = ModuleLoaded
  /\ storage_file = NoFile
  /\ adapter = NoAdapter
  /\ tasks = [t \in TaskIds |-> Idle]
  /\ last = TaskStep("init", "t1")

\* A caller starts one facade call, raw=True: on a sync facade the thread
\* enters the method of BlobSync (delete_blob does not take the keywords);
\* on an async facade the coroutine of BlobAsync is created for the loop.
begin ==
  \E t \in TaskIds, op \in TaskOps, b \in TaskBlobs, d \in Data :
    LET kw == Kwargs("truthy", FALSE)
        path == Dispatch(isasync, kw)
        refused == path = "call" /\ op = "delete_blob"
                   /\ BlobSync_delete_blob(Remote, container_name, blob_name, b,
                                           PassKwargs(kw), FALSE).exc = "TypeError"
    IN  /\ tasks[t].pc = "idle"
        /\ path \in {"call", "coroutine"}
        /\ tasks' = [tasks EXCEPT ![t] =
                       IF refused
                       THEN Task(op, b, {}, "done", <<>>, {}, "TypeError")
                       ELSE Task(op, b, IF op = "upload_blob" THEN {d} ELSE {},
                                 "called", <<>>, {}, "none")]
        /\ last' = TaskStep("begin", t)
        /\ UNCHANGED <<status, content, isasync, container_name, blob_name, self_blob,
                       clock, adapter, storage_file>>

\* A thread executes `self.blob_name = blob_name`.
assign_name ==
  \E t \in TaskIds :
    /\ ~isasync
    /\ tasks[t].pc = "called"
    /\ blob_name' = {tasks[t].b}
    /\ tasks' = [tasks EXCEPT ![t].pc = "assigned"]
    /\ last' = TaskStep("assign_name", t)
    /\ UNCHANGED <<status, content, isasync, container_name, self_blob, clock, adapter,
                   storage_file>>

\* A thread evaluates `self._blob_client`.
build_client ==
  \E t \in TaskIds :
    /\ ~isasync
    /\ tasks[t].pc = "assigned"
    /\ tasks' = [tasks EXCEPT ![t].pc = "built",
                              ![t].client = Client(self_blob, "_blob_client",
                                                   container_name, blob_name).client]
    /\ last' = TaskStep("build_client", t)
    /\ UNCHANGED <<status, content, isasync, container_name, blob_name, self_blob, clock,
                   adapter, storage_file>>

\* As run_to_await, with the two statements in the other order: the client
\* is built from the name that is current before the assignment.
run_to_await_ClientFirst ==
  \E t \in TaskIds :
    /\ isasync
    /\ tasks[t].pc = "called"
    /\ blob_name' = {tasks[t].b}
    /\ tasks' = [tasks EXCEPT ![t].pc = "built",
                              ![t].client = Client(self_blob, "_blob_client",
                                                   container_name, blob_name).client]
    /\ last' = TaskStep("run_to_await", t)
    /\ UNCHANGED <<status, content, isasync, container_name, self_blob, clock, adapter,
                   storage_file>>

\* The loop runs a coroutine from its start to its first await: the
\* assignment and the client, with nothing in between.
run_to_await ==
  \E t \in TaskIds :
    /\ isasync
    /\ tasks[t].pc = "called"
    /\ blob_name' = {tasks[t].b}
    /\ tasks' = [tasks EXCEPT ![t].pc = "built",
                              ![t].client = Client(self_blob, "_blob_client",
                                                   container_name, {tasks[t].b}).client]
    /\ last' = TaskStep("run_to_await", t)
    /\ UNCHANGED <<status, content, isasync, container_name, self_blob, clock, adapter,
                   storage_file>>

\* The request of the task's client is made, and the method returns.
request ==
  \E t \in TaskIds :
    /\ tasks[t].pc = "built"
    /\ \E bn \in {BlobClient_name(tasks[t].client, blob_name)} :
         \E s \in {Request(tasks[t].op, Remote, tasks[t].client[4], bn,
                           IF tasks[t].d = {} THEN 0 ELSE The(tasks[t].d))} :
           /\ status' = s.r.status
           /\ content' = s.r.content
           /\ tasks' = [tasks EXCEPT ![t].pc = "done", ![t].sent = bn, ![t].exc = s.exc]
    /\ last' = TaskStep("request", t)
    /\ UNCHANGED <<isasync, container_name, blob_name, self_blob, clock, adapter,
                   storage_file>>

TaskNext ==
  \/ begin
  \/ assign_name
  \/ build_client
  \/ run_to_await
  \/ request

TaskSpec == TaskInit /\ [][TaskNext]_vars

-----------------------------------------------------------------------------
(* Reading the record of the last call.                                     *)

Logged(rec, text) == \E i \in DOMAIN rec.log : rec.log[i] = Info(text)

Printed(rec, exc) == \E i \in DOMAIN rec.log : rec.log[i] = error_msg(exc)

Count(rec, call) == Cardinality({i \in DOMAIN rec.calls : rec.calls[i] = call})

TryLater == "The specified container is being deleted. Try operation later."

-----------------------------------------------------------------------------
(* Claims.                                                                  *)

\* C1: an upload_blob that reaches the service (raw given, no transport
\* failure) while the current container does not exist ends with the
\* container present and the blob stored with the uploaded data, after
\* exactly one create_container request and one retried upload request.
C1_UploadCreatesContainer ==
  (last.op = "upload_blob" /\ last.raw = "falsy" /\ ~last.fault
     /\ last.preStatus = "absent")
  => /\ status[last.c] = "present"
     /\ \A b \in last.b : b \in DOMAIN content[last.c]
                          /\ {content[last.c][b]} = last.d
     /\ Count(last, "create_container") = 1
     /\ Count(last, "upload_blob") = 2

\* An upload without overwrite of a name that is already stored.
NoOverwriteUpload(rec) ==
  rec.op = "upload_blob" /\ rec.preBlob # {} /\ ~rec.overwrite

\* C2: upload_blob of a blob name that already exists, without
\* overwrite=True, leaves the remote state (so the stored payload) as it was
\* and raises nothing to the caller; a download or read of that name made
\* next that hands back a payload hands back the original one, not the
\* payload of the upload.
C2_NoOverwriteKeepsContent ==
  [][ /\ NoOverwriteUpload(last') =>
           /\ last'.unchanged
           /\ \A b \in last'.b : {content'[last'.c][b]} = last'.preBlob
           /\ last'.raised = "none"
      /\ ( /\ NoOverwriteUpload(last)
           /\ last'.op \in {"download_blob", "read_blob"}
           /\ last'.b = last.b /\ last'.c = last.c
           /\ last'.ret.kind \in {"stream", "bytes"} )
         => /\ last'.ret.data = last.preBlob
            /\ (last.d # last.preBlob => last'.ret.data # last.d) ]_vars

\* C2 witness: the service refused an upload of a different payload over a
\* stored blob, and the facade logged it.
C2_Witness ==
  /\ NoOverwriteUpload(last)
  /\ last.d # last.preBlob
  /\ last.exc = "ResourceExistsError"
  /\ Logged(last, "Blob Exists")
  /\ \A b \in last.b : {content[last.c][b]} = last.preBlob

\* C3: every facade call gives the same result and the same remote state on
\* a facade constructed in the other mode, and in async mode what it returns
\* is never a coroutine that was not run.
C3_ModesAgree ==
  last.op \in FacadeOps \cup ListingOps
  => /\ last.twin.ret = last.ret
     /\ last.twin.raised = last.raised
     /\ last.twin.r = Remote
     /\ (isasync => last.ret.kind # "coroutine")

C5_SecondCreateReportsExists ==
  (last.op = "create_container" /\ last.again /\ ~last.fault)
  => /\ Logged(last, "Container Exists")
     /\ last.raised = "none"
     /\ last.unchanged

\* C6: delete_container of a container that does not exist (it was never
\* created, or is gone) reports it as not found, raises nothing and leaves
\* the remote state as it was.
C6_DeleteMissingContainer ==
  (last.op = "delete_container" /\ ~last.fault /\ last.preStatus = "absent")
  => /\ Logged(last, "Container Not Found")
     /\ last.raised = "none"
     /\ last.unchanged

\* C7: a delete_blob that passes raw, of a name the current container does
\* not hold, is reported as "Blob not exists", raises nothing and leaves the
\* remote state as it was.
C7_DeleteMissingBlob ==
  (last.op = "delete_blob" /\ last.raw = "falsy" /\ ~last.fault
     /\ last.preBlob = {})
  => /\ Logged(last, "Blob not exists")
     /\ last.raised = "none"
     /\ last.unchanged

\* C8: download_blob and read_blob of a name the current container does not
\* hold surface the not-found condition: ResourceNotFoundError reaches the
\* caller, or at least is what the facade reports.
C8_DownloadMissingBlob ==
  (last.op \in {"download_blob", "read_blob"} /\ ~last.fault /\ last.preBlob = {})
  => \/ last.raised = "ResourceNotFoundError"
     \/ Printed(last, "ResourceNotFoundError")

\* C9: when the listing request raises, container_exists, blob_exists and
\* blobs still return to the caller without an exception.
C9_ListingNeverRaises ==
  (last.op \in ListingOps /\ last.exc # "none") => last.raised = "none"

\* C10: an upload_blob that reaches the service while the container is
\* pending deletion, and so enters the create-and-retry handler, reports the
\* "try operation later" condition and raises nothing.
C10_PendingDeleteTryLater ==
  (last.op = "upload_blob" /\ last.raw = "falsy" /\ ~last.fault
     /\ last.preStatus = "deleting" /\ last.exc = "ResourceNotFoundError")
  => /\ Logged(last, TryLater)
     /\ last.raised = "none"

-----------------------------------------------------------------------------
(* Claims about construction, the connection string and the tokens.         *)

HasString(a) == Truthy(a.connect_string)

HasCredentials(a) == Truthy(a.protocal) /\ Truthy(a.account_name) /\ Truthy(a.account_key)

\* C11: constructing with no connection string and without all three of
\* protocol, account name and account key raises TypeError, and the caller
\* holds no object afterwards.
C11_MissingCredentialsFail ==
  (last.op = "Blob" /\ ~HasString(last.args) /\ ~HasCredentials(last.args))
    => (last.exc = "TypeError" /\ self_blob = NoObject)

\* The account key alone is missing (the protocol has its default).
C11_Witness ==
  /\ last.op = "Blob" /\ ~HasString(last.args)
  /\ Truthy(last.args.protocal) /\ Truthy(last.args.account_name)
  /\ ~Truthy(last.args.account_key)
  /\ last.exc = "TypeError" /\ self_blob = NoObject

\* C12, as the code has it: construction succeeds only when a connect
\* string or all three credential fields are given (with neither it fails);
\* with both it succeeds, and the connect string is the one used.
C12_AtLeastOneSource ==
  /\ (last.op = "Blob" /\ last.exc = "none")
       => (HasString(last.args) \/ HasCredentials(last.args))
  /\ (last.op = "Blob" /\ HasString(last.args) /\ HasCredentials(last.args))
       => (last.exc = "none" /\ self_blob # NoObject
           /\ self_blob["_connect_string"] = last.args.connect_string)

C12_Witness ==
  /\ last.op = "Blob" /\ HasString(last.args) /\ HasCredentials(last.args)
  /\ last.exc = "none" /\ self_blob["_connect_string"] = last.args.connect_string

\* C12 as stated: construction succeeds only when exactly one of the two
\* holds; with neither or with both it fails.
C12_ExactlyOneSource ==
  last.op = "Blob"
    => ((last.exc = "none") => (HasString(last.args) # HasCredentials(last.args)))

\* key=value stands in the connection string cs exactly once, as one of its
\* ';'-separated parts.
Once(cs, key, value) ==
  /\ Cardinality({i \in 1..Len(cs) : cs[i] = key}) = 1
  /\ \E i \in 1..Len(cs) :
       /\ cs[i] = key
       /\ (i = 1 \/ cs[i - 1] = ";")
       /\ i + Len(value) <= Len(cs)
       /\ SubSeq(cs, i + 1, i + Len(value)) = value
       /\ (i + Len(value) = Len(cs) \/ cs[i + Len(value) + 1] = ";")

ValidDiscrete(a) ==
  ~HasString(a) /\ HasCredentials(a) /\ (IsLocal(a) \/ Truthy(a.endpoint_suffix))

EndpointValue(a, port) ==
  a.protocal \o <<"://">> \o a.host \o <<":">> \o port \o <<"/">> \o a.account_name

\* C13: for every valid discrete-field input the builder completes, and the
\* connection string holds every derivable key exactly once with the value
\* supplied.
C13_BuilderCompletes ==
  (last.op = "Blob" /\ ValidDiscrete(last.args))
    => /\ last.exc = "none"
       /\ LET a == last.args
              cs == self_blob["_connect_string"]
          IN  /\ Once(cs, "DefaultEndpointsProtocol=", a.protocal)
              /\ Once(cs, "AccountName=", a.account_name)
              /\ Once(cs, "AccountKey=", a.account_key)
              /\ (Truthy(a.host) /\ Truthy(a.blob_port))
                   => Once(cs, "BlobEndpoint=", EndpointValue(a, a.blob_port))
              /\ (Truthy(a.host) /\ Truthy(a.queue_port))
                   => Once(cs, "QueueEndpoint=", EndpointValue(a, a.queue_port))
              /\ (Truthy(a.host) /\ Truthy(a.table_port))
                   => Once(cs, "TableEndpoint=", EndpointValue(a, a.table_port))
              /\ Truthy(a.endpoint_suffix)
                   => Once(cs, "EndpointSuffix=", a.endpoint_suffix)

\* C14: on an object constructed from a connect string alone, building an
\* SDK client and generating a token do not fail.
C14_StringAloneSuffices ==
  (last.op \in SdkClients \cup {"get_sas_token"} /\ DOMAIN self_blob = {"_connect_string"})
    => last.exc = "none"

\* C15: a token asked for with no expiry argument expires one hour after
\* the call.
C15_DefaultExpiryAtCallTime ==
  (last.op = "get_sas_token" /\ last.given = {} /\ last.exc = "none")
    => last.token.expiry = last.now + Hour

\* C16: container_exists is true exactly when the current container name is
\* among the account's containers, and blob_exists is true exactly when the
\* current blob name names a blob of the current container.
C16_ExistsIsMembership ==
  /\ (last.op = "container_exists" /\ last.raised = "none")
       => last.ret = Bool(last.preStatus = "present")
  /\ (last.op = "blob_exists" /\ last.raised = "none")
       => last.ret = Bool(last.preBlob # {})

-----------------------------------------------------------------------------
(* Claims about names and paths.                                            *)

HasDotDot(path) == \E i \in DOMAIN Split(path) : Split(path)[i] = <<".", ".">>

\* C18: safe_join raises ValueError, or the joined path begins with the base
\* (trailing slashes removed) followed by '/' and has no '..' segment.
C18_JoinStaysInside ==
  (last.op = "safe_join" /\ last.exc = "none")
    => LET base_path == IF Truthy(last.base) THEN RStrip(last.base, {"/"}) ELSE <<>>
       IN  /\ StartsWith(last.final_path, base_path \o <<"/">>)
           /\ ~HasDotDot(last.final_path)

Rejections == {"ValueError", "SuspiciousOperation"}

\* C17: under every root the adapter rejects the name "../../etc/passwd" on
\* save and on open, and hands no form of it to the SDK.
C17_RejectsEtcPasswd ==
  (last.op \in {"save", "open"} /\ last.name = EtcPasswd)
    => (last.exc \in Rejections /\ last.sent = None)

\* What the root puts before a name: "r/" for the root "/r".
RootPrefix == IF Truthy(adapter.location) THEN Strip(adapter.location, {"/"}) \o <<"/">> ELSE <<>>

\* The length and the slashes of the name a long name is stored under: the
\* root goes before it and a final '.' is dropped.
StoredLen(name) ==
  Len(RootPrefix) + Len(name) - (IF name[Len(name)] = "." THEN 1 ELSE 0)

StoredSlashes(name) == CountSlashes(RootPrefix) + CountSlashes(name)

\* C19: a save whose resulting name has more than 1024 characters or more
\* than 256 slashes raises ValueError and uploads nothing; up to 1024
\* characters and 256 slashes the name is accepted, and the caps are those
\* of the name the blob is stored under.
C19_CapsOnStoredName ==
  last.op = "save"
    => /\ (StoredLen(last.name) > AZURE_NAME_MAX_LEN \/ StoredSlashes(last.name) > MaxSlashes)
            => (last.exc = "ValueError" /\ last.sent = None /\ last.unchanged)
       /\ (StoredLen(last.name) <= AZURE_NAME_MAX_LEN /\ StoredSlashes(last.name) <= MaxSlashes)
            => /\ last.exc \notin Rejections
               /\ ~adapter.run_async
                    => /\ last.exc = "none"
                       /\ Len(last.sent) = StoredLen(last.name)
                       /\ CountSlashes(last.sent) = StoredSlashes(last.name)
                       /\ last.sent \in DOMAIN content[adapter.container_name]

\* A name of exactly 1024 characters and 256 slashes is stored.
C19_Witness ==
  /\ last.op = "save" /\ last.exc = "none"
  /\ Len(last.sent) = AZURE_NAME_MAX_LEN /\ CountSlashes(last.sent) = MaxSlashes
  /\ last.sent \in DOMAIN content[adapter.container_name]

\* C20: save rejects every name that is empty, only whitespace, or only
\* '.' and '/', and uploads nothing.
C20_RejectsEmptyNames ==
  (last.op = "save"
     /\ ((\A i \in 1..Len(last.name) : last.name[i] = " ")
         \/ (\A i \in 1..Len(last.name) : last.name[i] \in {".", "/"})))
    => (last.exc \in Rejections /\ last.sent = None /\ last.unchanged)

-----------------------------------------------------------------------------
(* Claims about the adapter's methods.                                      *)

\* The save just made reached the SDK, raised nothing and left the container
\* as it was: the blob was there already (ResourceExistsError, passed over).
SavedOverExisting ==
  /\ last.op = "save" /\ last.exc = "none"
  /\ last.sent # None /\ last.unchanged
  /\ last.sent \in DOMAIN content[adapter.container_name]

\* C21: a save of a name whose blob exists already skips the write without
\* an exception and returns the cleaned name, as a fresh save does.
C21_ExistingSaveReturnsName ==
  SavedOverExisting => last.ret = clean_name(last.name)

\* C22: listdir returns a pair (dirs, files) whose files component holds the
\* blob names of the container.
C22_ListdirReturnsPair ==
  (last.op = "listdir" /\ last.exc = "none")
    => /\ last.ret.type = "tuple"
       /\ Len(last.ret.items) = 2
       /\ last.ret.items[2] = DOMAIN content[adapter.container_name]

\* C25: under every root, _get_valid_path applied to a name it has accepted
\* and then to its own result raises nothing the second time and returns
\* that result unchanged.
C25_ValidPathIdempotent ==
  (last.op = "_get_valid_path" /\ last.exc = "none")
    => (last.second.exc = "none" /\ last.second.ret = last.ret)

\* C29: under every root, after a save that returned a name n, exists(n) is
\* true, and size(n), open(n) and delete(n) go to the blob the save wrote.
C29_SavedNameRetrieves ==
  (last.op = "save" /\ last.exc = "none" /\ last.ret # None)
    => /\ AzureStorage_exists(adapter, Remote, last.ret, FALSE).ret = TRUE
       /\ AzureStorage_size(adapter, Remote, last.ret, FALSE, TRUE).sent = last.sent
       /\ AzureStorage_open(adapter, Remote, last.ret, "rb").ret.name = last.sent
       /\ AzureStorage_delete(adapter, Remote, last.ret, FALSE).sent = last.sent
       /\ AzureStorage_delete(adapter, Remote, last.ret, FALSE).exc = "none"

\* The blob the file object names is in the container.
FileBlob ==
  IF storage_file.name \in DOMAIN content[adapter.container_name]
  THEN {content[adapter.container_name][storage_file.name]}
  ELSE {}

\* C23: open downloads nothing; the first access to `file` in a mode with
\* 'r' or 'a' downloads the blob into the buffer, at offset 0 when the mode
\* has 'r'; every later access returns the same buffer without a download;
\* a write-only mode never downloads.
C23_LazyDownload ==
  /\ last.op = "open" => (last.sent = None /\ storage_file._file = {})
  /\ (last.op = "file" /\ last.first /\ ~last.fault /\ FileBlob # {}
        /\ (Has(storage_file.mode, "r") \/ Has(storage_file.mode, "a")))
       => /\ last.exc = "none"
          /\ last.sent = storage_file.name
          /\ last.ret = storage_file._file
          /\ \E file \in storage_file._file :
               /\ file.data = FileBlob
               /\ Has(storage_file.mode, "r") => file.pos = 0
  /\ (last.op = "file" /\ ~last.first)
       => (last.exc = "none" /\ last.sent = None /\ last.ret = storage_file._file)
  /\ (last.op = "file" /\ ~Has(storage_file.mode, "r") /\ ~Has(storage_file.mode, "a"))
       => last.sent = None

-----------------------------------------------------------------------------
(* Claims about the facade's delete and its calls without raw.              *)

\* C26: after delete_blob(n) with a raw keyword has returned, for a blob n
\* that was in the current container, n is not in the container, in sync
\* mode and in async mode.
C26_DeleteRemovesBlob ==
  (last.op = "delete_blob" /\ last.raw # "absent" /\ ~last.fault
     /\ last.preStatus = "present" /\ last.preBlob # {})
    => \A b \in last.b : b \notin DOMAIN content[last.c]

\* The operation methods that pop 'raw' from their keyword arguments.
RawOps == {"create_container", "delete_container", "upload_blob", "download_blob",
           "read_blob", "delete_blob", "blob_properties"}

\* C27: a call of one of these methods without a raw keyword calls no
\* implementation method, returns None, raises nothing and leaves the
\* account and the current blob name as they were, in both modes; and in
\* the container-not-found fallback of upload_blob the create_container()
\* and the second upload make no remote call: the first attempt's request
\* is the only one.
C27_RawlessCallsDoNothing ==
  /\ [](last.op = "upload_blob" /\ last.exc = "ResourceNotFoundError"
          => (last.calls = <<"upload_blob">> /\ last.unchanged))
  /\ [][(last'.op \in RawOps /\ last'.raw = "absent")
          => /\ last'.calls = <<>>
             /\ last'.ret = RetNone
             /\ last'.raised = "none"
             /\ status' = status /\ content' = content
             /\ blob_name' = blob_name]_vars

\* An upload without raw of a new blob into a present container, on a
\* facade whose current blob name is None: KeyError is printed, nothing is
\* stored and the name stays None.
C27_Witness ==
  /\ last.op = "upload_blob" /\ last.raw = "absent"
  /\ last.preStatus = "present" /\ last.preBlob = {}
  /\ Printed(last, "KeyError")
  /\ blob_name = {}
  /\ \A b \in last.b : b \notin DOMAIN content[last.c]

-----------------------------------------------------------------------------
(* Claims about operations in flight together.                              *)

\* The task's request has been made.
Requested(t) == tasks[t].pc = "done" /\ tasks[t].sent # {}

\* C24: on a sync facade a request goes to the blob name that was current
\* when its operation read it for the client, whichever operation had
\* assigned it: a request that does not go to its own operation's name goes
\* to the name another operation in flight had made current.  (The witness
\* is the state this makes reachable.)
C24_RequestFollowsCurrentName ==
  ~isasync
    => \A t \in TaskIds :
         Requested(t)
           => /\ tasks[t].sent = tasks[t].client[5]
              /\ tasks[t].sent # {tasks[t].b}
                   => \E u \in TaskIds \ {t} :
                        /\ tasks[u].pc \in {"assigned", "built", "done"}
                        /\ tasks[t].sent = {tasks[u].b}

\* Two operations with different blob names on a sync facade, and the
\* request of one has just gone to the other's name.
C24_Witness ==
  /\ ~isasync
  /\ \E t \in TaskIds, u \in TaskIds :
       /\ t # u
       /\ last = TaskStep("request", t)
       /\ Requested(t)
       /\ tasks[u].b # tasks[t].b
       /\ tasks[t].sent = {tasks[u].b}

\* C28: on an async facade, with coroutines that are switched at awaits
\* only, every request goes to the blob name given to its own operation,
\* and the client of every operation is the client for that name.
C28_RequestGoesToOwnName ==
  isasync
    => \A t \in TaskIds :
         /\ Requested(t) => tasks[t].sent = {tasks[t].b}
         /\ tasks[t].pc = "built" => tasks[t].client[5] = {tasks[t].b}

\* A coroutine's request has just gone to its own name while the current
\* name was that of another coroutine, suspended at its await.
C28_Witness ==
  /\ isasync
  /\ \E t \in TaskIds, u \in TaskIds :
       /\ t # u
       /\ last = TaskStep("request", t)
       /\ Requested(t)
       /\ tasks[t].sent = {tasks[t].b}
       /\ tasks[u].pc = "built"
       /\ tasks[u].b # tasks[t].b
       /\ blob_name = {tasks[u].b}

====
